---- MODULE Spec2Model ----
(***************************************************************************)
(* State-machine model of the folder/session orchestration core of the     *)
(* CMake Tools extension: ExtensionManager (src/unnamed/part_000).         *)
(*                                                                         *)
(* Asynchronous methods are split at their real suspension points (user    *)
(* prompts, driver invocations, file and extension-host I/O); the code     *)
(* between two suspension points is one atomic action.                     *)
(***************************************************************************)
EXTENDS Integers, Sequences, FiniteSets, TLC

\* ------------------------------------------------------------------ bounds
\* most workspace folders open at once
MaxOpen == 2
\* most dispatcher calls (mapCMakeTools / _postWorkspaceOpen) in flight at once
MaxInflight == 2
\* most navigation-data updates in flight at once
MaxNav == 2
\* code-model snapshots a Session produces (0 is "no code model yet")
MaxVersion == 2

\* ------------------------------------------------------------------ values
Folders == {"A", "B", "C"}
None == "none"
FolderOrNone == Folders \cup {None}
Kits == {"gcc"}
NoKit == "nokit"
KitOrNone == Kits \cup {NoKit}
\* results of a driver operation: 0 is success, non-zero a failure
ExitCodes == {0, 1}
\* what a command hands its caller: a result code, or undefined
Val(n) == [def |-> TRUE, v |-> n]
Undefined == [def |-> FALSE, v |-> 0]
\* workspaceState holds no 'activeFolder'
NoPath == <<"none", "none">>
\* the status-bar subscriptions of lines 130-136
\* build targets a Session can have as its default; a new Session has "all"
Targets == {"all", "app"}
DefaultTarget == "all"
StatusSubs == {"statusMessage", "targetName", "buildType", "launchTarget",
               "ctestEnabled", "testResults", "isBusy"}

VARIABLES
  phase,            \* "new" (constructed), "ready" (_init ran), "disposing", "disposed"
  platform,         \* "posix" or "win32": decides what fsPath strings look like
  autoSelect,       \* _workspaceConfig.autoSelectActiveFolder
  configureOnOpen,  \* cmt.workspaceContext.config.configureOnOpen: "yes", "no", "ask" (null)
  testing,          \* process.env['CMT_TESTING'] === '1'
  cppInstalled,     \* whether cpt.getCppToolsApi resolves to an API object
  workspaceFolders, \* vscode.workspace.workspaceFolders, a sequence of folder keys
  registry,         \* _folders: the folder controller's instances, insertion order
  pending,          \* workspace-folder changes the controller has still to handle
  activeFolder,     \* _folders.activeFolder (a key of the registry, or None)
  persisted,        \* workspaceState 'activeFolder': NoPath or an fsPath string
  editorSub,        \* _onDidChangeActiveTextEditorSub is a live subscription
  statusSubs,       \* the Session each status-bar subscription is attached to
  sbFolderName,     \* _statusBar active folder name
  sbTargetName,     \* _statusBar.targetName
  sbKitName,        \* _statusBar active kit name
  cmSubs,           \* keys of _codeModelUpdateSubs
  listeners,        \* per folder: code-model listener sets attached to its Session
  former,           \* per folder: listener sets still attached to disposed Sessions of it
  live,             \* the folders whose Session is constructed and not disposed
  smoke,            \* the smoke-test runner: its steps, its position and what it saw
  activeKit,        \* per folder: the Session's active kit
  codeModel,        \* per folder: the Session's code-model snapshot (version)
  targetName,       \* per folder: the Session's default build target
  disp,             \* dispatcher calls in flight, in start order
  picks,            \* selectActiveFolder calls waiting for the folder pick
  nav,              \* navigation-data updates in flight, in start order
  cppToolsAPI,      \* _cppToolsAPI: "unset" or "ready"
  registered,       \* times registerCustomConfigurationProvider was called
  regMemo,          \* _configProviderRegister is set
  outline,          \* per folder: whether the outline has an entry, and the code model it shows
  published,        \* the tuple last given to _configProvider.updateConfigurationData
  log               \* what the latest step did that an observer can see

arbVars == <<phase, platform, autoSelect, configureOnOpen, testing, cppInstalled,
             workspaceFolders, registry, pending, activeFolder, persisted, editorSub,
             statusSubs, sbFolderName, sbTargetName, sbKitName, cmSubs, listeners, former, live,
             smoke>>
sessVars == <<activeKit, codeModel, targetName>>
taskVars == <<disp, picks, nav, cppToolsAPI, registered, regMemo, outline, published>>
vars == <<arbVars, sessVars, taskVars, log>>

\* ------------------------------------------------------------------ helpers
Range(s) == {s[i] : i \in 1..Len(s)}
Has(s, x) == x \in Range(s)
\* (mutant) remove(folderKey) leaves the entry in the registry
MutWithout(s, x) == s

RECURSIVE Without(_, _)
Without(s, x) ==
  IF s = <<>> THEN <<>>
  ELSE IF Head(s) = x THEN Without(Tail(s), x)
  ELSE <<Head(s)>> \o Without(Tail(s), x)
RemoveAt(s, i) == SubSeq(s, 1, i - 1) \o SubSeq(s, i + 1, Len(s))
IsPrefix(s, t) == Len(s) <= Len(t) /\ s = SubSeq(t, 1, Len(s))

\* uri.fsPath of a folder: the platform's native path string
FsPath(f) == <<platform, f>>
\* vscode.workspace.getWorkspaceFolder(vscode.Uri.parse(p)) for a stored fsPath p.
\* Uri.parse reads "c:\proj" as scheme "c", so a win32 path names no workspace folder;
\* a posix path "/proj" parses to the file URI of the same folder.
ParsedWorkspaceFolder(p, wsf) ==
  IF p = NoPath THEN None
  ELSE IF p[1] = "posix" /\ Has(wsf, p[2]) THEN p[2]
  ELSE None

\* observable events of one step
EvOutline(f, cm) == [kind |-> "outline", folder |-> f, cm |-> cm]
EvDone(d) == [kind |-> "done", d |-> d]
EvReturn(cmd, arg, ret) == [kind |-> "return", cmd |-> cmd, arg |-> arg, ret |-> ret]
\* debugTargetAll / launchTargetAll resolve to a list, over the n Sessions the
\* registry held when the list was gathered
EvReturnAll(cmd, n, list) == [kind |-> "returnAll", cmd |-> cmd, n |-> n, list |-> list]
\* update t gives its tuple to the provider, which held tuple over
EvPublish(t, over) == [kind |-> "publish", t |-> t, over |-> over]
EvNotify(f) == [kind |-> "codeModelChanged", folder |-> f]
EvFormerNotify(f) == [kind |-> "formerNotify", folder |-> f]
\* a folder event: what happened to folder f, and the active folder before it
EvFolder(kind, f, was) == [kind |-> kind, folder |-> f, was |-> was]
\* _postWorkspaceOpen was called for folder f
EvPostOpen(f) == [kind |-> "postOpen", folder |-> f]
\* "Would you like to configure this project?" of folder f was answered
EvAnswer(f, choice) == [kind |-> "answer", folder |-> f, choice |-> choice]

\* ------------------------------------------------------------------ subscriptions
\* how a subscription starts: "now" replays the property's current value to
\* the new subscriber, "late" delivers only later changes
FireNow == "now"
FireLate == "late"

\* what a subscriber that holds value shown has after subscribing in the given
\* mode to a property whose value is current
Subscribed(mode, current, shown) == IF mode = FireNow THEN current ELSE shown

\* (mutant) the status-bar subscriptions ask for later changes only
MutStatusSubMode == FireLate

\* the mode _setupSubscriptions gives its seven subscriptions, lines 436-448
StatusSubMode == FireNow

\* the mode of the three code-model subscriptions, lines 68-70 and 101-103
CodeModelSubMode == FireLate

\* ------------------------------------------------------------------ code-model propagation
\* A step's handlers run on a "world": the parts of the state that chains of
\* handler calls change (dispatcher calls, navigation updates, outline, log).
World == [disp |-> disp, nav |-> nav, outline |-> outline, log |-> <<>>]

NavTask(f, pc, cm, kit) ==
  [folder |-> f, pc |-> pc, cm |-> cm, kit |-> kit, stale |-> FALSE]

\* _updateCodeModel(folder), lines 381-419, up to the first suspension of its
\* asynchronous part. cm and kit are cmt.codeModel and cmt.activeKit at the call.
UpdateCodeModel(w, f, cm, kit) ==
  LET w1 == [w EXCEPT !.outline[f].cm = cm, !.log = Append(@, EvOutline(f, cm))]
  IN IF cppToolsAPI = "unset"
       THEN [w1 EXCEPT !.nav = Append(@, NavTask(f, "api", 0, NoKit))]
     ELSE IF cm # 0 /\ kit # NoKit
       THEN [w1 EXCEPT !.nav = Append(@, NavTask(f, "cache", cm, kit))]
     ELSE w1

\* ------------------------------------------------------------------ dispatcher
\* One call of mapCMakeTools (or of _postWorkspaceOpen, mode "open").
\*   mode     "active" | "folder" | "all" | "open"
\*   arg      the folder argument the command was given (None: undefined)
\*   cmd      the command that made the call; step/gid tie the two calls of a
\*            clean-then-rebuild composite together
\*   cur      the Session being ensured/run; idx its position for mode "all"
\*   invoked  the Sessions fn was invoked on, rets the results fn returned
\*   prompted the folders whose kit picker was shown
\*   result   what the call resolves to, once pc is "done" (mode "open" resolves
\*            to nothing: its result is not read)
NewDisp(mode, op, arg, cmd, step, gid) ==
  [mode |-> mode, op |-> op, arg |-> arg, cmd |-> cmd, step |-> step, gid |-> gid,
   pc |-> "start", cur |-> None, idx |-> 0, promptFor |-> None,
   invoked |-> <<>>, rets |-> <<>>, prompted |-> <<>>, result |-> 0]

\* smallest composite id no call in flight carries
FreeGid == CHOOSE g \in 1..(Len(disp) + 1) : \A i \in 1..Len(disp) : disp[i].gid # g

\* (mutant) fn is invoked without looking at the Session's kit
MutEnsureAndRun(d, s, act, kits) ==
  [d EXCEPT !.pc = "run", !.cur = s, !.invoked = Append(@, s)]

\* _ensureActiveKit(cmt) followed by fn(cmt), lines 189-209 with selectKit 541-550,
\* up to the first suspension. act is _folders.activeFolder, kits the Sessions' kits.
\* selectKit() is called without a folder: the picker is the ACTIVE folder's.
EnsureAndRun(d, s, act, kits) ==
  IF kits[s] # NoKit
    THEN [d EXCEPT !.pc = "run", !.cur = s, !.invoked = Append(@, s)]
  ELSE IF testing \/ act = None
    THEN [d EXCEPT !.pc = "nokit", !.cur = s]
  ELSE [d EXCEPT !.pc = "prompt", !.cur = s, !.promptFor = act,
                 !.prompted = Append(@, act)]

Finished(d, r) == [d EXCEPT !.pc = "done", !.result = r]

\* the result mapCMakeTools gives when _ensureActiveKit fails, lines 605, 613, 623
NoKitResult == -1
\* the result mapCMakeTools gives when there is no active folder, line 608
NoActiveFolderResult == 0

\* (mutant) a failed ensure-kit step resolves the call to the success code
MutAfterEnsure(d) ==
  IF d.pc = "nokit"
    THEN Finished(d, 0)
  ELSE d

\* what a failed ensure-kit step resolves the call to
AfterEnsure(d) ==
  IF d.pc = "nokit"
    THEN Finished(d, NoKitResult)
  ELSE d

\* mapCMakeTools, all-folders branch, lines 614-628: continue the loop at position i
LoopFrom(d, i, act, kits) ==
  IF i > Len(registry) THEN Finished([d EXCEPT !.idx = i], 0)
  ELSE AfterEnsure(EnsureAndRun([d EXCEPT !.idx = i], registry[i], act, kits))

\* mapCMakeTools, lines 596-629: the call up to its first suspension
MapCMakeTools(d, act, kits) ==
  IF d.mode = "all" THEN LoopFrom(d, 1, act, kits)
  ELSE IF d.mode = "folder" THEN AfterEnsure(EnsureAndRun(d, d.arg, act, kits))
  ELSE IF act = None THEN Finished(d, NoActiveFolderResult)
  ELSE AfterEnsure(EnsureAndRun(d, act, act, kits))

\* (mutant) the loop over all folders goes on whatever fn returned
MutAfterOp(d, r, act, kits) ==
  LET d1 == [d EXCEPT !.rets = Append(@, r)]
  IN IF d.mode = "all" THEN LoopFrom(d1, d.idx + 1, act, kits)
     ELSE Finished(d1, r)

\* mapCMakeTools once fn(cmt) has returned r: the result is returned (lines
\* 603, 611); over all folders a truthy result is returned and any other
\* moves the loop to the next folder (lines 618-621)
AfterOp(d, r, act, kits) ==
  LET d1 == [d EXCEPT !.rets = Append(@, r)]
  IN IF d.mode = "all" /\ r = 0 THEN LoopFrom(d1, d.idx + 1, act, kits)
     ELSE Finished(d1, r)

\* the caller's continuation once a call has resolved: buildAll and the like
\* return the call's result (lines 650-658, 683, 689); cleanRebuildAll, lines
\* 699-705, returns a truthy clean result and otherwise goes on to buildAll()
Complete(w, d, act, kits) ==
  LET w1 == [w EXCEPT !.log = Append(@, EvDone(d))]
      ret(x) == EvReturn(x.cmd, x.arg, Val(x.result))
  IN IF d.cmd = "all" THEN [w1 EXCEPT !.log = Append(@, ret(d))]
     ELSE IF d.cmd = "cleanRebuildAll" THEN
       IF d.step = "rebuild" \/ d.result # 0
         THEN [w1 EXCEPT !.log = Append(@, ret(d))]
       ELSE LET d2 == MapCMakeTools(
                        NewDisp("all", "build", None, "cleanRebuildAll", "rebuild", d.gid),
                        act, kits)
            IN IF d2.pc = "done"
                 THEN [w1 EXCEPT !.log = @ \o <<EvDone(d2), ret(d2)>>]
               ELSE [w1 EXCEPT !.disp = Append(@, d2)]
     ELSE w1

\* a new call that ran to its first suspension, or to its end, joins the world
Settle(w, d, act, kits) ==
  IF d.pc = "done" THEN Complete(w, d, act, kits)
  ELSE [w EXCEPT !.disp = Append(@, d)]

\* debugTargetAll and launchTargetAll, lines 768-790
TargetAllCmds == {"debugTargetAll", "launchTargetAll"}

\* Promise.resolve(null), lines 774 and 787
ExtraNull == [from |-> None, v |-> Undefined]
\* what the mapCMakeTools call d of one Session resolved to
OwnResult(d) == [from |-> d.arg, v |-> Val(d.result)]

\* (mutant) one null is pushed after the loop, not one per Session
MutTargetAllResults(ds) ==
  [i \in 1..(Len(ds) + 1) |-> IF i <= Len(ds) THEN OwnResult(ds[i]) ELSE ExtraNull]

\* the promises pushed by the loop of lines 770-775 / 783-788, in order: each
\* Session's call, then a promise of null
TargetAllResults(ds) ==
  [i \in 1..(2 * Len(ds)) |-> IF i % 2 = 1 THEN OwnResult(ds[(i + 1) \div 2])
                                ELSE ExtraNull]

\* Promise.all(...), lines 776 and 789: the command resolves once every call
\* it made has resolved
Gathered(w, cmd, g) ==
  LET mine(d) == d.cmd = cmd /\ d.gid = g
      other(d) == ~mine(d)
      ds == SelectSeq(w.disp, mine)
  IN IF \A i \in 1..Len(ds) : ds[i].pc = "done"
       THEN [w EXCEPT !.disp = SelectSeq(@, other),
                      !.log = Append(@, EvReturnAll(cmd, Len(ds), TargetAllResults(ds)))]
     ELSE w

\* the call at position i has moved on to d
Resettle(w, i, d, act, kits) ==
  IF d.pc = "done" /\ d.cmd \in TargetAllCmds
    THEN Gathered([w EXCEPT !.disp[i] = d, !.log = Append(@, EvDone(d))], d.cmd, d.gid)
  ELSE IF d.pc = "done" THEN Complete([w EXCEPT !.disp = RemoveAt(@, i)], d, act, kits)
  ELSE [w EXCEPT !.disp[i] = d]

\* mapCMakeToolsFolder, lines 631-633: the call is made on the folder's Session,
\* or with undefined (the active-folder branch) when the registry has no such
\* folder; its promise is neither awaited nor returned
MapCMakeToolsFolder(w, op, arg, cmd, step, gid, act, kits) ==
  LET known == arg # None /\ Has(registry, arg)
      d0 == NewDisp(IF known THEN "folder" ELSE "active", op, arg, cmd, step, gid)
  IN Settle(w, MapCMakeTools(d0, act, kits), act, kits)

\* (mutant) configure-on-open configures without ensuring a kit
MutPostWorkspaceOpen(w, f, act, kits, cms) ==
  LET d0 == NewDisp("open", "configure", f, "open", "op", 0)
      w0 == [w EXCEPT !.log = Append(@, EvPostOpen(f))]
  IN IF configureOnOpen = "ask" /\ ~testing
       THEN [w0 EXCEPT !.disp = Append(@, [d0 EXCEPT !.pc = "ask"])]
     ELSE IF configureOnOpen = "yes"
       THEN Settle(w0, MutEnsureAndRun(d0, f, act, kits), act, kits)
     ELSE UpdateCodeModel(w0, f, cms[f], kits[f])

\* _postWorkspaceOpen(info), lines 243-305, up to its first suspension
PostWorkspaceOpen(w, f, act, kits, cms) ==
  LET d0 == NewDisp("open", "configure", f, "open", "op", 0)
      w0 == [w EXCEPT !.log = Append(@, EvPostOpen(f))]
  IN IF configureOnOpen = "ask" /\ ~testing
       THEN [w0 EXCEPT !.disp = Append(@, [d0 EXCEPT !.pc = "ask"])]
     ELSE IF configureOnOpen = "yes"
       THEN Settle(w0, AfterEnsure(EnsureAndRun(d0, f, act, kits)), act, kits)
     ELSE UpdateCodeModel(w0, f, cms[f], kits[f])

\* _postWorkspaceOpen for each folder of a sequence, in order (lines 99-106)
RECURSIVE PostWorkspaceOpenEach(_, _, _, _, _)
PostWorkspaceOpenEach(w, fs, act, kits, cms) ==
  IF fs = <<>> THEN w
  ELSE PostWorkspaceOpenEach(PostWorkspaceOpen(w, Head(fs), act, kits, cms),
                             Tail(fs), act, kits, cms)

\* a Session notification reaches each of its n code-model listener sets
\* (lines 68-70 and 101-103): every one calls _updateCodeModel
RECURSIVE Notify(_, _, _, _, _)
Notify(w, f, n, cm, kit) ==
  IF n = 0 THEN w
  ELSE Notify(UpdateCodeModel(w, f, cm, kit), f, n - 1, cm, kit)

\* the code-model subscriptions of lines 67-71 / 100-104 are made on the
\* Session of f: in mode "now" the callback would run at once
SubscribeCodeModel(w, f, cm, kit) ==
  IF CodeModelSubMode = FireNow THEN Notify(w, f, 1, cm, kit) ELSE w

RECURSIVE SubscribeCodeModelEach(_, _, _, _)
SubscribeCodeModelEach(w, fs, kits, cms) ==
  IF fs = <<>> THEN w
  ELSE SubscribeCodeModelEach(SubscribeCodeModel(w, Head(fs), cms[Head(fs)], kits[Head(fs)]),
                              Tail(fs), kits, cms)

\* the step's world becomes the next state
Commit(w) ==
  /\ Len(w.disp) <= MaxInflight
  /\ Len(w.nav) <= MaxNav
  /\ disp' = w.disp
  /\ nav' = w.nav
  /\ outline' = w.outline
  /\ log' = w.log

\* ------------------------------------------------------------------ active folder
\* the arbiter's state: active folder, status-bar names, status-bar subscriptions
Arb == [active |-> activeFolder, folderName |-> sbFolderName,
        kitName |-> sbKitName, targetName |-> sbTargetName, subs |-> statusSubs]

ApplyArb(a) ==
  /\ activeFolder' = a.active
  /\ sbFolderName' = a.folderName
  /\ sbKitName' = a.kitName
  /\ sbTargetName' = a.targetName
  /\ statusSubs' = a.subs

\* CMakeToolsFolderController.setActiveFolder(ws): the active folder is the
\* registry's entry for ws, or nothing when ws is undefined or not registered
ControllerSetActive(ws, reg) == IF ws # None /\ Has(reg, ws) THEN ws ELSE None

\* the status-bar kit name for active folder a
KitNameOf(a, kits) == IF a = None \/ kits[a] = NoKit THEN "" ELSE kits[a]

\* (mutant) the busy subscription is left as the dummy it started as
MutSetupSubscriptions(a) == [n \in StatusSubs |-> IF n = "isBusy" THEN None ELSE a]

\* _setupSubscriptions, lines 421-450 (with _disposeSubs, 368-379): every
\* status-bar subscription is disposed and re-attached to the active Session
SetupSubscriptions(a) == [n \in StatusSubs |-> a]

\* _setupSubscriptions, lines 436-439: the status bar's target name once the
\* target-name subscription is made on active Session a (none: no subscription)
TargetNameShown(a) ==
  IF a = None THEN sbTargetName
  ELSE Subscribed(StatusSubMode, targetName[a], sbTargetName)

\* _setActiveFolder(ws), lines 360-366
SetActiveFolder(ws, reg, kits) ==
  LET a == ControllerSetActive(ws, reg)
  IN [active |-> a,
      folderName |-> IF ws = None THEN "" ELSE ws,
      kitName |-> KitNameOf(a, kits),
      targetName |-> TargetNameShown(a),
      subs |-> SetupSubscriptions(a)]

\* the documents an editor can show: none open, one outside every folder, or
\* one under a folder's path
Editors == {"noeditor", "outside"} \cup Folders

\* _onDidChangeActiveTextEditor(editor), lines 307-318
OnDidChangeActiveTextEditor(ed, cur, reg, kits) ==
  LET ws == IF ed \in Folders /\ Has(workspaceFolders, ed) THEN ed ELSE None
  IN IF workspaceFolders # <<>> /\ ws # None /\ (cur.active = None \/ ws # cur.active)
       THEN SetActiveFolder(ws, reg, kits)
     ELSE cur

\* _initActiveFolder, lines 340-353
InitActiveFolder(ed, cur, reg, kits) ==
  IF ed # "noeditor" /\ autoSelect
    THEN OnDidChangeActiveTextEditor(ed, cur, reg, kits)
  ELSE LET stored == ParsedWorkspaceFolder(persisted, workspaceFolders)
           folder == IF stored # None THEN stored ELSE workspaceFolders[1]
       IN SetActiveFolder(folder, reg, kits)

\* (mutant) the handler forgets the active folder when it is the one removed
MutAfterRemoveFolder(f, cur, reg, kits) ==
  IF workspaceFolders = <<>> /\ cur.active # f THEN SetActiveFolder(None, reg, kits)
  ELSE cur

\* the handler of onAfterRemoveFolder, lines 75-83: which folder becomes active
AfterRemoveFolder(f, cur, reg, kits) ==
  IF workspaceFolders = <<>> THEN SetActiveFolder(None, reg, kits)
  ELSE IF cur.active = f THEN SetActiveFolder(workspaceFolders[1], reg, kits)
  ELSE cur

\* the handler of onAfterAddFolder, lines 57-61: which folder becomes active
AfterAddFolder(cur, reg, kits) ==
  IF Len(workspaceFolders) = 1 THEN SetActiveFolder(workspaceFolders[1], reg, kits)
  ELSE cur

\* ------------------------------------------------------------------ initial states
cfgVars == <<platform, autoSelect, configureOnOpen, testing, cppInstalled, smoke>>
navVars == <<cppToolsAPI, registered, regMemo, published>>

\* sequences of distinct folders of F, at most n long
DistinctSeqs(F, n) ==
  {s \in UNION {[1..k -> F] : k \in 0..n} :
     \A i, j \in 1..Len(s) : i # j => s[i] # s[j]}

NoTuple == [folder |-> None, cm |-> 0, kit |-> NoKit]

\* the manager as constructed (lines 55-84, 86-155), in a window whose folders
\* are any of F
\* ------------------------------------------------------------------ smoke runner
\* steps a smoke test specification may hold
MaxSteps == 2
\* the items of cmt-smoke.yaml (smoke.ts lines 8-22); setKit has no ok flag
SmokeItems ==
  {[type |-> "setKit", ok |-> TRUE]}
    \cup {[type |-> t, ok |-> b] : t \in {"configure", "build"}, b \in BOOLEAN}
TestSpecs == UNION {[1..n -> SmokeItems] : n \in 0..MaxSteps}

\* the runner before run() is called
SmokeIdle ==
  [state |-> "idle", folder |-> None, steps |-> <<>>, pos |-> 0, ran |-> <<>>,
   updates |-> 0]

\* (mutant) only a step expected to succeed can fail
MutStepFails(item, res) == item.type # "setKit" /\ item.ok /\ res # 0

\* doConfigure / doBuild, smoke.ts lines 80-98: the step throws when the
\* result is non-zero and ok is set, or zero and ok is not set
StepFails(item, res) ==
  /\ item.type # "setKit"
  /\ \/ item.ok /\ res # 0
     \/ ~item.ok /\ res = 0

Constructed(F) ==
  /\ phase = "new"
  /\ smoke = SmokeIdle
  /\ workspaceFolders \in DistinctSeqs(F, MaxOpen)
  /\ registry = <<>>
  /\ pending = <<>>
  /\ activeFolder = None
  /\ editorSub = FALSE
  /\ statusSubs = [n \in StatusSubs |-> None]
  /\ sbFolderName = ""
  /\ sbTargetName = DefaultTarget
  /\ sbKitName = ""
  /\ cmSubs = {}
  /\ listeners = [f \in Folders |-> 0]
  /\ former = [f \in Folders |-> 0]
  /\ live = {}
  /\ activeKit = [f \in Folders |-> NoKit]
  /\ codeModel = [f \in Folders |-> 0]
  /\ targetName = [f \in Folders |-> DefaultTarget]
  /\ disp = <<>>
  /\ picks = <<>>
  /\ nav = <<>>
  /\ cppToolsAPI = "unset"
  /\ registered = 0
  /\ regMemo = FALSE
  /\ outline = [f \in Folders |-> [shown |-> FALSE, cm |-> 0]]
  /\ published = NoTuple
  /\ log = <<>>

\* ------------------------------------------------------------------ startup and folders
\* _init, lines 93-108. loadAllCurrent creates one Session per workspace folder,
\* each with the kit its folder had stored (any kit, or none). With no folder,
\* vscode.workspace.workspaceFolders is undefined (no workspace opened: nothing
\* runs) or empty (opened, a workspace without folders: the editor
\* subscription is made and _initActiveFolder leaves the active folder unset).
DoInit(ed, kits, opened) ==
  /\ phase = "new"
  /\ phase' = "ready"
  /\ \A f \in Folders : ~Has(workspaceFolders, f) => kits[f] = NoKit
  /\ workspaceFolders # <<>> => opened
  /\ IF workspaceFolders = <<>>
       THEN /\ log' = <<>>
            /\ editorSub' = opened
            /\ UNCHANGED <<registry, activeFolder, sbFolderName, sbTargetName, sbKitName,
                           statusSubs, cmSubs, listeners, former, live, activeKit, disp, nav, outline>>
     ELSE LET reg == workspaceFolders
              a == InitActiveFolder(ed, Arb, reg, kits)
              w0 == [World EXCEPT !.outline =
                       [f \in Folders |-> IF Has(reg, f) THEN [@[f] EXCEPT !.shown = TRUE]
                                          ELSE @[f]],
                                  !.log = <<EvFolder("init", ed, activeFolder)>>]
              w1 == SubscribeCodeModelEach(w0, reg, kits, codeModel)
              w == PostWorkspaceOpenEach(w1, reg, a.active, kits, codeModel)
          IN /\ registry' = reg
             /\ activeKit' = kits
             /\ editorSub' = TRUE
             /\ ApplyArb(a)
             /\ cmSubs' = cmSubs \cup Range(reg)
             /\ listeners' = [f \in Folders |-> IF Has(reg, f) THEN 1 ELSE listeners[f]]
             /\ live' = live \cup Range(reg)
             /\ UNCHANGED former
             /\ Commit(w)
  /\ UNCHANGED <<cfgVars, workspaceFolders, pending, persisted, codeModel, targetName,
                 picks, navVars>>

\* vscode changes the workspace folders (any of them removed, any others added,
\* in one change) and raises onDidChangeWorkspaceFolders, once the controller
\* has handled the previous change; the controller handles the removals first,
\* then the additions, one at a time
WorkspaceFoldersChanged(rems, adds) ==
  /\ phase = "ready"
  /\ pending = <<>>
  /\ rems # {} \/ adds # <<>>
  /\ rems \subseteq Range(workspaceFolders)
  /\ \A k \in 1..Len(adds) : ~Has(workspaceFolders, adds[k])
  /\ LET gone == SelectSeq(workspaceFolders, LAMBDA f : f \in rems)
         wsf == SelectSeq(workspaceFolders, LAMBDA f : f \notin rems) \o adds
         pnd == [k \in 1..Len(gone) |-> [kind |-> "remove", folder |-> gone[k]]]
                  \o [k \in 1..Len(adds) |-> [kind |-> "add", folder |-> adds[k]]]
     IN /\ Len(wsf) <= MaxOpen
        /\ workspaceFolders' = wsf
        /\ pending' = pnd
  /\ log' = <<>>
  /\ UNCHANGED <<phase, cfgVars, registry, activeFolder, persisted, editorSub, statusSubs,
                 sbFolderName, sbTargetName, sbKitName, cmSubs, listeners, former, live, sessVars, taskVars>>

\* (mutant) the disposed Session keeps the listener sets attached to it
MutDisposeSession(n) == n

\* the listener sets still attached to a Session that had n of them, once the
\* registry's remove(folderKey) has disposed it: "disposes the Session (releases
\* its driver, cancels subscriptions)". The handler itself (line 76) only
\* forgets the subscriptions of _codeModelUpdateSubs, it disposes none.
DisposeSession(n) == 0

\* remove(folderKey) of the registry is called for a folder that is not open
RemoveCalled(f) ==
  /\ phase = "ready"
  /\ pending = <<>>
  /\ ~Has(workspaceFolders, f)
  /\ pending' = <<[kind |-> "remove", folder |-> f]>>
  /\ log' = <<>>
  /\ UNCHANGED <<phase, cfgVars, workspaceFolders, registry, activeFolder, persisted,
                 editorSub, statusSubs, sbFolderName, sbTargetName, sbKitName, cmSubs, listeners, former,
                 live, sessVars, taskVars>>

\* remove(folderKey) returned without doing anything: the key was absent
EvRemoveAbsent(f) == [kind |-> "removeAbsent", folder |-> f]

\* CMakeToolsFolderController handles a removed folder: remove(folderKey) of the
\* registry (a no-op when absent; otherwise the Session is disposed and the
\* "removed" event fires), then the handler of lines 75-83
\* (mutant) the removed folder's entry stays in _codeModelUpdateSubs
MutForgetSubs(subs, f) == subs

\* _codeModelUpdateSubs.delete(info.uri.fsPath), line 76
ForgetSubs(subs, f) == subs \ {f}

RemoveFolder ==
  /\ phase = "ready"
  /\ pending # <<>>
  /\ Head(pending).kind = "remove"
  /\ pending' = Tail(pending)
  /\ LET f == Head(pending).folder
     IN IF ~Has(registry, f)
          THEN /\ log' = <<EvRemoveAbsent(f)>>
               /\ UNCHANGED <<registry, activeFolder, statusSubs, sbFolderName, sbTargetName, sbKitName,
                              cmSubs, listeners, former, live, sessVars, outline>>
        ELSE LET reg == Without(registry, f)
                 kits == [activeKit EXCEPT ![f] = NoKit]
             IN /\ registry' = reg
                /\ activeKit' = kits
                /\ codeModel' = [codeModel EXCEPT ![f] = 0]
                /\ targetName' = [targetName EXCEPT ![f] = DefaultTarget]
                /\ listeners' = [listeners EXCEPT ![f] = 0]
                /\ live' = live \ {f}
                /\ former' = [former EXCEPT ![f] = @ + DisposeSession(listeners[f])]
                /\ cmSubs' = ForgetSubs(cmSubs, f)
                /\ ApplyArb(AfterRemoveFolder(f, Arb, reg, kits))
                /\ outline' = [outline EXCEPT ![f] = [shown |-> FALSE, cm |-> 0]]
                /\ log' = <<EvFolder("removed", f, activeFolder)>>
  /\ UNCHANGED <<phase, cfgVars, workspaceFolders, persisted, editorSub,
                 disp, picks, nav, navVars>>

\* add(folderKey) of the registry is called for a folder of the workspace
\* that the controller is not already handling a change of
AddCalled(f) ==
  /\ phase = "ready"
  /\ pending = <<>>
  /\ Has(workspaceFolders, f)
  /\ pending' = <<[kind |-> "add", folder |-> f]>>
  /\ log' = <<>>
  /\ UNCHANGED <<phase, cfgVars, workspaceFolders, registry, activeFolder, persisted,
                 editorSub, statusSubs, sbFolderName, sbTargetName, sbKitName, cmSubs, listeners, former,
                 live, sessVars, taskVars>>

\* add(folderKey) failed with DuplicateFolder
EvDuplicateFolder(f) == [kind |-> "DuplicateFolder", folder |-> f]

\* (mutant) add(folderKey) takes every key as new
MutIsDuplicate(reg, f) == FALSE

\* add(folderKey) "fails with DuplicateFolder if already present"
IsDuplicate(reg, f) == Has(reg, f)

\* CMakeToolsFolderController handles an added folder: add(folderKey) of the
\* registry (DuplicateFolder when present; otherwise a new Session, with the
\* kit k its folder had stored, and the "added" event), then the handler of
\* lines 57-74
AddFolder(k) ==
  /\ phase = "ready"
  /\ pending # <<>>
  /\ Head(pending).kind = "add"
  /\ pending' = Tail(pending)
  /\ LET f == Head(pending).folder
     IN IF IsDuplicate(registry, f)
          THEN /\ k = NoKit
               /\ log' = <<EvDuplicateFolder(f)>>
               /\ UNCHANGED <<registry, activeFolder, statusSubs, sbFolderName, sbTargetName, sbKitName,
                              cmSubs, listeners, former, live, sessVars, disp, nav, outline>>
        ELSE LET reg == Append(registry, f)
                 kits == [activeKit EXCEPT ![f] = k]
                 a == AfterAddFolder(Arb, reg, kits)
                 w0 == [World EXCEPT !.outline[f].shown = TRUE,
                                     !.log = <<EvFolder("added", f, activeFolder)>>]
                 w1 == IF f \in cmSubs THEN w0
                       ELSE SubscribeCodeModel(w0, f, codeModel[f], kits[f])
                 w == PostWorkspaceOpen(w1, f, a.active, kits, codeModel)
             IN /\ registry' = reg
                /\ activeKit' = kits
                /\ ApplyArb(a)
                /\ cmSubs' = cmSubs \cup {f}
                /\ listeners' = [listeners EXCEPT ![f] = IF f \in cmSubs THEN @ ELSE @ + 1]
                /\ live' = live \cup {f}
                /\ UNCHANGED former
                /\ Commit(w)
                /\ UNCHANGED <<codeModel, targetName>>
  /\ UNCHANGED <<phase, cfgVars, workspaceFolders, persisted, editorSub, picks, navVars>>

\* the editor's focus moves to document ed; the subscription of line 97 calls
\* _onDidChangeActiveTextEditor
EditorFocusChanged(ed) ==
  /\ phase = "ready"
  /\ editorSub
  /\ ApplyArb(OnDidChangeActiveTextEditor(ed, Arb, registry, activeKit))
  /\ log' = <<EvFolder("focus", ed, activeFolder)>>
  /\ UNCHANGED <<phase, cfgVars, workspaceFolders, registry, pending, persisted, editorSub,
                 cmSubs, listeners, former, live, sessVars, taskVars>>

\* the selectActiveFolder command ran: whether it showed the folder pick
EvSelect(shown) == [kind |-> "selectActiveFolder", shown |-> shown]

\* (mutant) the command shows the folder pick whatever the policy says
MutSelectActiveFolder ==
  /\ phase = "ready"
  /\ picks = <<>>
  /\ IF workspaceFolders # <<>>
       THEN /\ picks' = Append(picks, [last |-> activeFolder])
            /\ log' = <<EvSelect(TRUE)>>
     ELSE /\ picks' = picks
          /\ log' = <<EvSelect(FALSE)>>
  /\ UNCHANGED <<arbVars, sessVars, disp, nav, navVars, outline>>

\* selectActiveFolder, lines 323-326: the command up to the folder pick (the
\* editor shows one folder pick at a time); it does nothing without workspace
\* folders or with cmake.autoSelectActiveFolder on
SelectActiveFolder ==
  /\ phase = "ready"
  /\ picks = <<>>
  /\ IF workspaceFolders # <<>> /\ ~autoSelect
       THEN /\ picks' = Append(picks, [last |-> activeFolder])
            /\ log' = <<EvSelect(TRUE)>>
     ELSE /\ picks' = picks
          /\ log' = <<EvSelect(FALSE)>>
  /\ UNCHANGED <<arbVars, sessVars, disp, nav, navVars, outline>>

\* selectActiveFolder, lines 327-336: the pick is answered with folder sel of
\* the workspace, or cancelled (None). Reading activeFolder! of line 331 throws
\* when the selection is not in the registry, which ends the command there.
FolderPicked(i, sel) ==
  /\ i \in 1..Len(picks)
  /\ sel = None \/ Has(workspaceFolders, sel)
  /\ picks' = RemoveAt(picks, i)
  /\ IF sel = None
       THEN /\ log' = <<>>
            /\ UNCHANGED <<activeFolder, statusSubs, sbFolderName, sbTargetName, sbKitName, persisted,
                           disp, nav, outline>>
     ELSE LET a == SetActiveFolder(sel, registry, activeKit)
              w0 == [World EXCEPT !.log = <<EvFolder("picked", sel, activeFolder)>>]
          IN /\ ApplyArb(a)
             /\ IF a.active = None
                  THEN /\ Commit(w0)
                       /\ UNCHANGED persisted
                ELSE /\ persisted' = FsPath(a.active)
                     /\ IF picks[i].last # a.active
                          THEN Commit(PostWorkspaceOpen(w0, a.active, a.active,
                                                        activeKit, codeModel))
                        ELSE Commit(w0)
  /\ UNCHANGED <<phase, cfgVars, workspaceFolders, registry, pending, editorSub,
                 cmSubs, listeners, former, live, sessVars, navVars>>

\* ------------------------------------------------------------------ navigation data
\* _updateCodeModel, lines 392-395: getCppToolsApi resolves; with an API, a
\* code model and a kit the update goes on to open the cache, else it ends
NavApiResolved(i) ==
  /\ i \in 1..Len(nav)
  /\ nav[i].pc = "api"
  /\ cppToolsAPI' = IF cppInstalled THEN "ready" ELSE cppToolsAPI
  /\ LET f == nav[i].folder
     IN IF cppToolsAPI' = "ready" /\ codeModel[f] # 0 /\ activeKit[f] # NoKit
          THEN nav' = [nav EXCEPT ![i] = [@ EXCEPT !.pc = "cache", !.cm = codeModel[f],
                                                   !.kit = activeKit[f]]]
        ELSE nav' = RemoveAt(nav, i)
  /\ log' = <<>>
  /\ UNCHANGED <<arbVars, sessVars, disp, picks, registered, regMemo, outline, published>>

\* rollbar.exception(...) of line 403: update t could not open its cache
EvCacheFailure(t) == [kind |-> "cacheFailure", folder |-> t.folder, t |-> t]

\* (mutant) a failure to open the cache is reported and the update goes on
\* with what it has
MutNavCacheOpened(i, ok) ==
  /\ i \in 1..Len(nav)
  /\ nav[i].pc = "cache"
  /\ nav' = [nav EXCEPT ![i].pc = "env"]
  /\ log' = IF ok THEN <<>> ELSE <<EvCacheFailure(nav[i])>>
  /\ UNCHANGED <<arbVars, sessVars, disp, picks, navVars, outline>>

\* lines 399-405: CMakeCache.fromPath resolves (ok) or throws; a failure is
\* reported and ends the update
NavCacheOpened(i, ok) ==
  /\ i \in 1..Len(nav)
  /\ nav[i].pc = "cache"
  /\ nav' = IF ok THEN [nav EXCEPT ![i].pc = "env"] ELSE RemoveAt(nav, i)
  /\ log' = IF ok THEN <<>> ELSE <<EvCacheFailure(nav[i])>>
  /\ UNCHANGED <<arbVars, sessVars, disp, picks, navVars, outline>>

\* the provider was announced to the language tooling (notifyReady or
\* didChangeCustomConfiguration, lines 412-416) by the update of folder f;
\* registered is the number of registrations made so far
EvProviderReady(f, n) == [kind |-> "providerReady", folder |-> f, registered |-> n]

\* (mutant) every call registers the provider
MutEnsureCppToolsProviderRegistered ==
  /\ regMemo' = TRUE
  /\ registered' = IF cppToolsAPI = "ready" THEN registered + 1 ELSE registered

\* ensureCppToolsProviderRegistered with _doRegisterCppTools, lines 581-593:
\* the first call stores the promise of _doRegisterCppTools, whose body runs
\* within that call; every call returns the stored promise
EnsureCppToolsProviderRegistered ==
  /\ regMemo' = TRUE
  /\ registered' = IF ~regMemo /\ cppToolsAPI = "ready" THEN registered + 1 ELSE registered

\* lines 406-411: driver, kit environment and compiler path resolve; the tuple
\* is given to the provider and ensureCppToolsProviderRegistered is called,
\* whose promise the update awaits. Updates started earlier for the same
\* folder that have not handed over their tuple yet are now stale.
NavPublished(i) ==
  /\ i \in 1..Len(nav)
  /\ nav[i].pc = "env"
  /\ LET t == nav[i]
         rest == [j \in 1..Len(nav) |->
                   IF j < i /\ nav[j].folder = t.folder /\ nav[j].pc # "announce"
                     THEN [nav[j] EXCEPT !.stale = TRUE]
                   ELSE nav[j]]
     IN /\ published' = [folder |-> t.folder, cm |-> t.cm, kit |-> t.kit]
        /\ nav' = [rest EXCEPT ![i].pc = "announce"]
        /\ EnsureCppToolsProviderRegistered
        /\ log' = <<EvPublish(t, published)>>
  /\ UNCHANGED <<arbVars, sessVars, disp, picks, cppToolsAPI, outline>>

\* lines 411-416: the awaited registration promise resolves and the update
\* announces the provider, which ends it
NavAnnounced(i) ==
  /\ i \in 1..Len(nav)
  /\ nav[i].pc = "announce"
  /\ nav' = RemoveAt(nav, i)
  /\ log' = <<EvProviderReady(nav[i].folder, registered)>>
  /\ UNCHANGED <<arbVars, sessVars, disp, picks, navVars, outline>>

\* ------------------------------------------------------------------ commands
\* configure(folder), build(folder), clean(folder), ... (lines 648-689): a
\* single-folder command is mapCMakeToolsFolder(folder, fn). arg is any folder
\* key, registered or not, or None when the command is given no folder.
FolderCommand(op, arg) ==
  /\ phase = "ready"
  /\ LET w == MapCMakeToolsFolder(World, op, arg, "single", "op", 0,
                                  activeFolder, activeKit)
     IN Commit([w EXCEPT !.log = Append(@, EvReturn("single", arg, Undefined))])
  /\ UNCHANGED <<arbVars, sessVars, picks, navVars>>

\* configureAll, buildAll, cleanAll, ... : mapCMakeTools(fn) over every folder
AllCommand(op) ==
  /\ phase = "ready"
  /\ LET d == MapCMakeTools(NewDisp("all", op, None, "all", "op", 0),
                            activeFolder, activeKit)
     IN Commit(Settle(World, d, activeFolder, activeKit))
  /\ UNCHANGED <<arbVars, sessVars, picks, navVars>>

\* cleanRebuild(folder), lines 691-697: build(folder, 'clean') resolves to
\* undefined as soon as its call is made, so build(folder) follows at once
CleanRebuild(arg) ==
  /\ phase = "ready"
  /\ LET g == FreeGid
         w1 == MapCMakeToolsFolder(World, "clean", arg, "cleanRebuild", "clean", g,
                                   activeFolder, activeKit)
         retc == Undefined
         w2 == IF retc.def /\ retc.v # 0 THEN w1
               ELSE MapCMakeToolsFolder(w1, "build", arg, "cleanRebuild", "rebuild", g,
                                        activeFolder, activeKit)
     IN Commit([w2 EXCEPT !.log = Append(@, EvReturn("cleanRebuild", arg, Undefined))])
  /\ UNCHANGED <<arbVars, sessVars, picks, navVars>>

\* cleanRebuildAll, lines 699-705: buildAll('clean'), awaited; Complete goes on
CleanRebuildAll ==
  /\ phase = "ready"
  /\ LET d == MapCMakeTools(NewDisp("all", "clean", None, "cleanRebuildAll", "clean",
                                    FreeGid),
                            activeFolder, activeKit)
     IN Commit(Settle(World, d, activeFolder, activeKit))
  /\ UNCHANGED <<arbVars, sessVars, picks, navVars>>

\* the loop of lines 770-775 / 783-788: mapCMakeTools(cmtFolder.cmakeTools, fn)
\* is called for each Session in turn and none of the calls is awaited, so
\* each runs to its first suspension before the next is made
RECURSIVE StartEach(_, _, _, _, _, _)
StartEach(fs, op, cmd, g, act, kits) ==
  IF fs = <<>> THEN <<>>
  ELSE <<MapCMakeTools(NewDisp("folder", op, Head(fs), cmd, "op", g), act, kits)>>
       \o StartEach(Tail(fs), op, cmd, g, act, kits)

\* debugTargetAll (lines 768-777) and launchTargetAll (lines 781-790)
TargetAll(cmd) ==
  /\ phase = "ready"
  /\ cmd \in TargetAllCmds
  /\ LET g == FreeGid
         op == IF cmd = "debugTargetAll" THEN "debug" ELSE "launch"
         ds == StartEach(registry, op, cmd, g, activeFolder, activeKit)
     IN Commit(Gathered([World EXCEPT !.disp = @ \o ds], cmd, g))
  /\ UNCHANGED <<arbVars, sessVars, picks, navVars>>

\* ------------------------------------------------------------------ deactivation
\* asyncDispose released the status-bar subscriptions attached as status and
\* the code-model listener sets counted by cm
EvReleased(status, cm) == [kind |-> "released", status |-> status, codeModel |-> cm]
\* the Session of folder f has been disposed
EvDisposed(f) == [kind |-> "disposed", folder |-> f]

\* (mutant) the status-bar subscriptions are left attached
MutDisposeSubs == statusSubs

\* _disposeSubs, lines 368-379: each of the seven subscriptions is disposed
DisposeSubs == [n \in StatusSubs |-> None]

\* the Sessions the loop of lines 237-239 has still to dispose, in its order
ToDispose == SelectSeq(registry, LAMBDA f : f \in live)

\* asyncDispose, lines 221-241, as deactivate (lines 974-979) calls it, up to
\* its first suspension: the status-bar subscriptions (line 222), the listener
\* sets held in _codeModelUpdateSubs (223-229) and the editor subscription (230)
\* are disposed, then the disposal of the first Session is awaited (238); with
\* no Session left the controller is disposed (240) and the call is over
AsyncDispose ==
  /\ phase \in {"new", "ready"}
  /\ phase' = IF ToDispose = <<>> THEN "disposed" ELSE "disposing"
  /\ statusSubs' = DisposeSubs
  /\ listeners' = [f \in Folders |-> IF f \in cmSubs /\ listeners[f] > 0
                                       THEN listeners[f] - 1 ELSE listeners[f]]
  /\ editorSub' = FALSE
  /\ log' = <<EvReleased([n \in StatusSubs |-> IF statusSubs[n] # None THEN 1 ELSE 0],
                         [f \in Folders |-> listeners[f] - listeners'[f]])>>
  /\ UNCHANGED <<cfgVars, workspaceFolders, registry, pending, activeFolder, persisted,
                 sbFolderName, sbTargetName, sbKitName, cmSubs, former, live, sessVars,
                 disp, picks, nav, navVars, outline>>

\* the awaited cmtf.cmakeTools.asyncDispose() of line 238 is over: the Session
\* is disposed, with whatever listeners it still had; the loop goes on to the
\* next Session, and after the last one the controller is disposed (line 240)
SessionDisposed ==
  /\ phase = "disposing"
  /\ ToDispose # <<>>
  /\ LET f == Head(ToDispose)
     IN /\ live' = live \ {f}
        /\ former' = [former EXCEPT ![f] = @ + DisposeSession(listeners[f])]
        /\ listeners' = [listeners EXCEPT ![f] = 0]
        /\ phase' = IF Tail(ToDispose) = <<>> THEN "disposed" ELSE "disposing"
        /\ log' = <<EvDisposed(f)>>
  /\ UNCHANGED <<cfgVars, workspaceFolders, registry, pending, activeFolder, persisted,
                 editorSub, statusSubs, sbFolderName, sbTargetName, sbKitName, cmSubs,
                 sessVars, disp, picks, nav, navVars, outline>>

\* asyncRun, smoke.ts lines 56-62: the runner reads the test specification,
\* takes the Session of folder f and calls its first step
AsyncRun(steps, f) ==
  /\ phase = "ready"
  /\ smoke.state = "idle"
  /\ Has(registry, f)
  /\ steps \in TestSpecs
  /\ smoke' = [SmokeIdle EXCEPT !.state = IF steps = <<>> THEN "passed" ELSE "waiting",
                                !.folder = f, !.steps = steps]
  /\ log' = <<>>
  /\ UNCHANGED <<phase, platform, autoSelect, configureOnOpen, testing, cppInstalled,
                 workspaceFolders, registry, pending, activeFolder, persisted, editorSub,
                 statusSubs, sbFolderName, sbTargetName, sbKitName, cmSubs, listeners,
                 former, live, sessVars, taskVars>>

\* the step the runner awaits (cmt.privSetKit, cmt.configure or cmt.build, called
\* on the Session itself) returns res. A successful configure yields a new
\* code-model snapshot and the Session raises "code model changed"; the runner
\* throws on an unexpected result (lines 82-86, 92-97) and otherwise the loop
\* of lines 59-61 calls the next step.
StepReturned(res) ==
  /\ smoke.state = "waiting"
  /\ LET k == smoke.pos + 1
         item == smoke.steps[k]
         f == smoke.folder
         fresh == item.type = "configure" /\ res = 0 /\ Has(registry, f)
         cms == IF fresh THEN [codeModel EXCEPT ![f] = @ + 1] ELSE codeModel
         kits == IF item.type = "setKit" /\ Has(registry, f)
                   THEN [activeKit EXCEPT ![f] = "gcc"]
                 ELSE activeKit
         w == IF fresh
                THEN Notify([World EXCEPT !.log = <<EvNotify(f)>>], f, listeners[f],
                            cms[f], kits[f])
              ELSE World
         shown == SelectSeq(w.log, LAMBDA e : e.kind = "outline" /\ e.folder = f)
     IN /\ item.type = "setKit" => res = 0
        /\ fresh => codeModel[f] < MaxVersion
        /\ codeModel' = cms
        /\ activeKit' = kits
        /\ smoke' = [smoke EXCEPT
                       !.pos = k,
                       !.ran = Append(@, [idx |-> k, res |-> res]),
                       !.updates = @ + Len(shown),
                       !.state = IF StepFails(item, res) THEN "failed"
                                 ELSE IF k = Len(smoke.steps) THEN "passed"
                                 ELSE "waiting"]
        /\ Commit(w)
  /\ UNCHANGED <<phase, platform, autoSelect, configureOnOpen, testing, cppInstalled,
                 workspaceFolders, registry, pending, activeFolder, persisted, editorSub,
                 statusSubs, sbFolderName, sbTargetName, sbKitName, cmSubs, listeners,
                 former, live, targetName, picks, navVars>>

\* the status-bar kit name after a kit operation, lines 554-556 and 576-578
KitNameAfter(kits) ==
  IF activeFolder # None /\ kits[activeFolder] # NoKit THEN kits[activeFolder]
  ELSE sbKitName

\* selectKit, lines 552-561, and the rest of _ensureActiveKit, lines 203-208:
\* the kit picker of folder promptFor is answered with kit k, or cancelled
\* (NoKit). The picker sets the kit of the folder it was shown for; the call
\* goes on exactly when its own Session has a kit afterwards.
KitPicked(i, k) ==
  /\ i \in 1..Len(disp)
  /\ disp[i].pc = "prompt"
  /\ LET d == disp[i]
         kits == IF k # NoKit /\ Has(registry, d.promptFor)
                   THEN [activeKit EXCEPT ![d.promptFor] = k]
                 ELSE activeKit
         d1 == IF kits[d.cur] # NoKit
                 THEN [d EXCEPT !.pc = "run", !.invoked = Append(@, d.cur)]
               ELSE Finished(d, NoKitResult)
     IN /\ activeKit' = kits
        /\ sbKitName' = KitNameAfter(kits)
        /\ Commit(Resettle(World, i, d1, activeFolder, kits))
  /\ UNCHANGED <<phase, cfgVars, workspaceFolders, registry, pending, activeFolder,
                 persisted, editorSub, statusSubs, sbFolderName, sbTargetName, cmSubs, listeners, former, live,
                 codeModel, targetName, picks, navVars>>

\* the driver operation of call i returns r. A successful configure of a live
\* Session yields a new code-model snapshot and the Session raises "code model
\* changed". Then the caller goes on: mapCMakeTools returns the result (lines
\* 603, 611) or, over all folders, stops at a truthy one and otherwise moves
\* to the next folder (lines 618-621); _postWorkspaceOpen updates the code
\* model (line 304).
OpFinished(i, r) ==
  /\ i \in 1..Len(disp)
  /\ disp[i].pc = "run"
  /\ LET d == disp[i]
         s == d.cur
         fresh == d.op = "configure" /\ r = 0 /\ Has(registry, s)
         cms == IF fresh THEN [codeModel EXCEPT ![s] = @ + 1] ELSE codeModel
         w1 == IF fresh
                 THEN Notify([World EXCEPT !.log = <<EvNotify(s)>>], s, listeners[s],
                             cms[s], activeKit[s])
               ELSE World
         d2 == AfterOp(d, r, activeFolder, activeKit)
         w2 == IF d.mode = "open" THEN UpdateCodeModel(w1, s, cms[s], activeKit[s])
               ELSE w1
     IN /\ fresh => codeModel[s] < MaxVersion
        /\ codeModel' = cms
        /\ Commit(Resettle(w2, i, d2, activeFolder, activeKit))
  /\ UNCHANGED <<arbVars, activeKit, targetName, picks, navVars>>

\* _postWorkspaceOpen, lines 252-293: "Would you like to configure this
\* project?" is answered "yes" or "no", or dismissed ("cancel"); persist says
\* whether the follow-up question stores the answer as cmake.configureOnOpen
ConfigurePromptAnswered(i, choice, persist) ==
  /\ i \in 1..Len(disp)
  /\ disp[i].pc = "ask"
  /\ choice \in {"yes", "no", "cancel"}
  /\ choice = "cancel" => ~persist
  /\ configureOnOpen' = IF persist THEN choice ELSE configureOnOpen
  /\ LET d == disp[i]
         f == d.arg
         d1 == IF choice = "yes"
                 THEN AfterEnsure(EnsureAndRun(d, f, activeFolder, activeKit))
               ELSE Finished(d, 0)
         w0 == [World EXCEPT !.log = <<EvAnswer(f, choice)>>]
         w1 == IF choice = "no" THEN UpdateCodeModel(w0, f, codeModel[f], activeKit[f])
               ELSE w0
     IN Commit(Resettle(w1, i, d1, activeFolder, activeKit))
  /\ UNCHANGED <<phase, platform, autoSelect, testing, cppInstalled, workspaceFolders,
                 registry, pending, activeFolder, persisted, editorSub, statusSubs,
                 sbFolderName, sbTargetName, sbKitName, cmSubs, listeners, former, live, smoke,
                 sessVars, picks, navVars>>

\* a Session raises "target name changed" or "launch target name changed"
\* (subscriptions of lines 69-70, 102-103)
TargetNameChanged(f) ==
  /\ phase = "ready"
  /\ Has(registry, f)
  /\ Commit(Notify([World EXCEPT !.log = <<EvNotify(f)>>], f, listeners[f],
                   codeModel[f], activeKit[f]))
  /\ UNCHANGED <<arbVars, sessVars, picks, navVars>>

\* the Session of f changes its default build target to t (its targetName
\* property): the status bar's subscription of lines 437-439 and the code-model
\* subscription of line 69 are told
EvTarget(f, t) == [kind |-> "targetName", folder |-> f, target |-> t]

SetDefaultTarget(f, t) ==
  /\ phase = "ready"
  /\ Has(registry, f)
  /\ t \in Targets
  /\ t # targetName[f]
  /\ targetName' = [targetName EXCEPT ![f] = t]
  /\ sbTargetName' = IF statusSubs["targetName"] = f THEN t ELSE sbTargetName
  /\ Commit(Notify([World EXCEPT !.log = <<EvTarget(f, t)>>], f, listeners[f],
                   codeModel[f], activeKit[f]))
  /\ UNCHANGED <<phase, cfgVars, workspaceFolders, registry, pending, activeFolder,
                 persisted, editorSub, statusSubs, sbFolderName, sbKitName, cmSubs,
                 listeners, former, live, activeKit, codeModel, picks, navVars>>

\* folder f has no Session now and had one: an update started for it is still
\* in flight
HasFormerSession(f) == f \notin live /\ \E i \in 1..Len(nav) : nav[i].folder = f

\* a Session whose folder was removed raises "code model changed", "target
\* name changed" or "launch target name changed": the callbacks of lines
\* 68-70 and 101-103 that are still attached to it run
FormerSessionNotified(f) ==
  /\ phase = "ready"
  /\ HasFormerSession(f)
  /\ Commit(Notify([World EXCEPT !.log = <<EvFormerNotify(f)>>], f, former[f], 0, NoKit))
  /\ UNCHANGED <<arbVars, sessVars, picks, navVars>>

\* the setKitByName command ran with this kit name and folder argument
EvSetKit(k, arg) == [kind |-> "setKitByName", kit |-> k, arg |-> arg]

\* (mutant) a folder argument is not looked at: the kit goes to every Session
MutKitsByName(k, arg) == [f \in Folders |-> IF Has(registry, f) THEN k ELSE activeKit[f]]

\* setKitByName, lines 569-575: the kit of each Session after the call
KitsByName(k, arg) ==
  [f \in Folders |->
     IF Has(registry, f) /\ (arg = None \/ arg = f) THEN k ELSE activeKit[f]]

\* setKitByName(kitName, folder), lines 568-579
SetKitByName(k, arg) ==
  /\ phase = "ready"
  /\ k \in Kits
  /\ LET kits == KitsByName(k, arg)
     IN /\ activeKit' = kits
        /\ sbKitName' = KitNameAfter(kits)
  /\ log' = <<EvSetKit(k, arg)>>
  /\ UNCHANGED <<phase, cfgVars, workspaceFolders, registry, pending, activeFolder,
                 persisted, editorSub, statusSubs, sbFolderName, sbTargetName, cmSubs, listeners, former, live,
                 codeModel, targetName, taskVars>>

\* kits whose visualStudio definition starts with "VisualStudio.15" or
\* "VisualStudio.16" (line 514)
OldVSKits == {"vs15"}

\* the scanForKits command ran; dup is what KitsController.scanForKits returned
EvScan(dup) == [kind |-> "scanForKits", duplicateRemoved |-> dup]

\* scanForKits, lines 504-520: when the scan removed duplicates, every Session
\* whose active kit is of an old Visual Studio definition has its kit unset
\* (the status bar is not told)
ScanForKits(dup) ==
  /\ phase = "ready"
  /\ activeKit' = [f \in Folders |->
                     IF dup /\ Has(registry, f) /\ activeKit[f] \in OldVSKits
                       THEN NoKit ELSE activeKit[f]]
  /\ log' = <<EvScan(dup)>>
  /\ UNCHANGED <<arbVars, codeModel, targetName, taskVars>>

\* ------------------------------------------------------------------ specifications
\* the settings and stored state a run starts from
Settings(os, auto, onOpen, test, cpp, stored) ==
  /\ platform \in os
  /\ autoSelect \in auto
  /\ configureOnOpen \in onOpen
  /\ testing \in test
  /\ cppInstalled \in cpp
  /\ persisted \in {IF f = None THEN NoPath ELSE FsPath(f) : f \in stored}

\* startup, with stored kits drawn from K
StartUp(K) ==
  \E ed \in Editors, kits \in [Folders -> K], opened \in BOOLEAN : DoInit(ed, kits, opened)

\* Active folder and registry: every folder event, with the auto-select policy
\* on or off and any stored active folder. Folders have no stored kit and the
\* extension runs with CMT_TESTING=1, so opening a folder starts no prompt and
\* no configure.
InitArbiter ==
  /\ Settings({"posix", "win32"}, BOOLEAN, {"yes"}, {TRUE}, {TRUE}, FolderOrNone)
  /\ Constructed(Folders)

NextArbiter ==
  \/ StartUp({NoKit})
  \/ \E rems \in SUBSET Folders, adds \in DistinctSeqs(Folders, MaxOpen) :
       WorkspaceFoldersChanged(rems, adds)
  \/ RemoveFolder
  \/ AddFolder(NoKit)
  \/ \E ed \in Editors : EditorFocusChanged(ed)
  \/ SelectActiveFolder
  \/ \E sel \in FolderOrNone : FolderPicked(1, sel)

SpecArbiter == InitArbiter /\ [][NextArbiter]_vars

\* Command dispatch on one folder: the folders open at startup stay open and
\* keep the kit they had stored; build and clean-then-rebuild on any folder
\* key, registered or not, or on none, and cleanRebuildAll. The extension runs with CMT_TESTING=1
\* (no kit picker) and cmake.configureOnOpen off.
InitDispatch ==
  /\ Settings({"posix"}, {TRUE}, {"no"}, {TRUE}, {FALSE}, {None})
  /\ Constructed({"A", "B"})

NextDispatch ==
  \/ StartUp(KitOrNone)
  \/ \E arg \in FolderOrNone : FolderCommand("build", arg)
  \/ \E arg \in FolderOrNone : CleanRebuild(arg)
  \/ CleanRebuildAll
  \/ \E i \in 1..MaxInflight, r \in ExitCodes : OpFinished(i, r)
  \/ \E i \in 1..MaxNav : NavApiResolved(i)

SpecDispatch == InitDispatch /\ [][NextDispatch]_vars

\* Commands on the active folder: build with no folder argument, the kit
\* picker answered or cancelled, kits set by name; with and without
\* CMT_TESTING=1
InitActive ==
  /\ Settings({"posix"}, {TRUE}, {"no"}, BOOLEAN, {FALSE}, {None})
  /\ Constructed({"A", "B"})

NextActive ==
  \/ StartUp(KitOrNone)
  \/ FolderCommand("build", None)
  \/ \E i \in 1..MaxInflight, k \in KitOrNone : KitPicked(i, k)
  \/ \E i \in 1..MaxInflight, r \in ExitCodes : OpFinished(i, r)
  \/ \E k \in Kits : SetKitByName(k, None)
  \/ \E i \in 1..MaxNav : NavApiResolved(i)

SpecActive == InitActive /\ [][NextActive]_vars

\* Commands over all folders: buildAll, with any folders open at startup, each
\* with or without a stored kit; the kit picker answered or cancelled; with
\* and without CMT_TESTING=1
InitFanOut ==
  /\ Settings({"posix"}, {TRUE}, {"no"}, BOOLEAN, {FALSE}, {None})
  /\ Constructed(Folders)

NextFanOut ==
  \/ StartUp(KitOrNone)
  \/ AllCommand("build")
  \/ \E i \in 1..MaxInflight, k \in KitOrNone : KitPicked(i, k)
  \/ \E i \in 1..MaxInflight, r \in ExitCodes : OpFinished(i, r)
  \/ \E i \in 1..MaxNav : NavApiResolved(i)

SpecFanOut == InitFanOut /\ [][NextFanOut]_vars

\* Code-model propagation: folders open without a stored kit (CMT_TESTING=1,
\* so nothing is configured or asked at startup); kits set by name, configure
\* commands, Session notifications, and navigation-data updates that resolve
\* in any order
InitCodeModel ==
  /\ Settings({"posix"}, {TRUE}, {"yes"}, {TRUE}, {TRUE}, {None})
  /\ Constructed({"A", "B"})

NextCodeModel ==
  \/ StartUp({NoKit})
  \/ \E k \in Kits : SetKitByName(k, None)
  \/ FolderCommand("configure", None)
  \/ \E i \in 1..MaxInflight, r \in ExitCodes : OpFinished(i, r)
  \/ \E f \in Folders : TargetNameChanged(f)
  \/ \E i \in 1..MaxNav : NavApiResolved(i)
  \/ \E i \in 1..MaxNav, ok \in BOOLEAN : NavCacheOpened(i, ok)
  \/ \E i \in 1..MaxNav : NavPublished(i)
  \/ \E i \in 1..MaxNav : NavAnnounced(i)

SpecCodeModel == InitCodeModel /\ [][NextCodeModel]_vars

\* Session removal: folders come and go, and Sessions, live and former, raise
\* their notifications at any time
InitRemoval ==
  /\ Settings({"posix"}, {TRUE}, {"yes"}, {TRUE}, {TRUE}, {None})
  /\ Constructed({"A", "B"})

NextRemoval ==
  \/ StartUp({NoKit})
  \/ \E rems \in SUBSET {"A", "B"}, adds \in DistinctSeqs({"A", "B"}, MaxOpen) :
       WorkspaceFoldersChanged(rems, adds)
  \/ RemoveFolder
  \/ AddFolder(NoKit)
  \/ \E f \in Folders : TargetNameChanged(f)
  \/ \E f \in Folders : AddCalled(f)
  \/ \E f \in Folders : RemoveCalled(f)
  \/ \E f \in Folders : FormerSessionNotified(f)
  \/ \E i \in 1..MaxNav : NavApiResolved(i)

SpecRemoval == InitRemoval /\ [][NextRemoval]_vars

\* Status bar and outline subscriptions: folders come and go, the editor's
\* focus moves the active folder (auto-select on), Sessions change their
\* default target
InitStatus ==
  /\ Settings({"posix"}, {TRUE}, {"yes"}, {TRUE}, {TRUE}, {None})
  /\ Constructed({"A", "B"})

NextStatus ==
  \/ StartUp({NoKit})
  \/ \E rems \in SUBSET {"A", "B"}, adds \in DistinctSeqs({"A", "B"}, MaxOpen) :
       WorkspaceFoldersChanged(rems, adds)
  \/ RemoveFolder
  \/ AddFolder(NoKit)
  \/ \E ed \in Editors : EditorFocusChanged(ed)
  \/ \E f \in Folders, t \in Targets : SetDefaultTarget(f, t)
  \/ \E i \in 1..MaxNav : NavApiResolved(i)

SpecStatus == InitStatus /\ [][NextStatus]_vars

\* Kits: Sessions start with any stored kit, of an old Visual Studio
\* definition or not; kits are set by name, picked when a build asks for one,
\* and rescanned, while the editor's focus moves
InitKits ==
  /\ Settings({"posix"}, {TRUE}, {"no"}, {FALSE}, {FALSE}, {None})
  /\ Constructed({"A", "B"})

NextKits ==
  \/ StartUp(KitOrNone \cup OldVSKits)
  \/ \E dup \in BOOLEAN : ScanForKits(dup)
  \/ \E k \in Kits, arg \in FolderOrNone : SetKitByName(k, arg)
  \/ FolderCommand("build", None)
  \/ \E i \in 1..MaxInflight, k \in KitOrNone : KitPicked(i, k)
  \/ \E i \in 1..MaxInflight, r \in ExitCodes : OpFinished(i, r)
  \/ \E ed \in {"A", "B"} : EditorFocusChanged(ed)
  \/ \E i \in 1..MaxNav : NavApiResolved(i)

SpecKits == InitKits /\ [][NextKits]_vars

\* Targets: every folder's target is debugged or launched by one command
\* while kit pickers are answered and the driver operations return
InitTargets ==
  /\ Settings({"posix"}, {TRUE}, {"no"}, {FALSE}, {FALSE}, {None})
  /\ Constructed({"A", "B"})

NextTargets ==
  \/ StartUp(KitOrNone)
  \/ \E cmd \in TargetAllCmds : TargetAll(cmd)
  \/ \E i \in 1..MaxInflight, k \in KitOrNone : KitPicked(i, k)
  \/ \E i \in 1..MaxInflight, r \in ExitCodes : OpFinished(i, r)
  \/ \E ed \in {"A", "B"} : EditorFocusChanged(ed)
  \/ \E i \in 1..MaxNav : NavApiResolved(i)

SpecTargets == InitTargets /\ [][NextTargets]_vars

\* Smoke: the smoke-test runner drives one folder's Session through the
\* steps of a test specification while the code model's consumers catch up
InitSmoke ==
  /\ Settings({"posix"}, {TRUE}, {"no"}, {TRUE}, {FALSE}, {None})
  /\ Constructed({"A", "B"})

NextSmoke ==
  \/ StartUp({NoKit})
  \/ \E steps \in TestSpecs, f \in Folders : AsyncRun(steps, f)
  \/ \E res \in ExitCodes : StepReturned(res)
  \/ \E i \in 1..MaxNav : NavApiResolved(i)

SpecSmoke == InitSmoke /\ [][NextSmoke]_vars

\* Deactivation: folders come and go and a configure runs;
\* at some point the extension is deactivated
InitDispose ==
  /\ Settings({"posix"}, {TRUE}, {"no"}, {TRUE}, {FALSE}, {None})
  /\ Constructed({"A", "B"})

NextDispose ==
  \/ StartUp(KitOrNone)
  \/ \E rems \in SUBSET {"A", "B"}, adds \in DistinctSeqs({"A", "B"}, MaxOpen) :
       WorkspaceFoldersChanged(rems, adds)
  \/ RemoveFolder
  \/ AddFolder("gcc")
  \/ FolderCommand("configure", None)
  \/ \E i \in 1..MaxInflight : OpFinished(i, 0)
  \/ \E i \in 1..MaxNav : NavApiResolved(i)
  \/ AsyncDispose
  \/ SessionDisposed

SpecDispose == InitDispose /\ [][NextDispose]_vars

\* Open: folders are open at startup or added later, the active folder is
\* picked by hand, and the step that follows a folder's opening asks, ensures
\* a kit and configures as the configure-on-open setting says
InitOpen ==
  /\ Settings({"posix"}, {FALSE}, {"yes", "no", "ask"}, {FALSE}, {FALSE}, {None})
  /\ Constructed({"A", "B"})
  /\ workspaceFolders \in {<<"A">>, <<"A", "B">>}

NextOpen ==
  \/ StartUp(KitOrNone)
  \/ WorkspaceFoldersChanged({}, <<"B">>)
  \/ AddFolder(NoKit)
  \/ (disp = <<>> /\ nav = <<>> /\ SelectActiveFolder)
  \/ \E sel \in {None, "A", "B"} : FolderPicked(1, sel)
  \/ \E i \in 1..MaxInflight, choice \in {"yes", "no", "cancel"} :
       ConfigurePromptAnswered(i, choice, FALSE)
  \/ \E i \in 1..MaxInflight, k \in KitOrNone : KitPicked(i, k)
  \/ \E i \in 1..MaxInflight : OpFinished(i, 0)
  \/ \E i \in 1..MaxNav : NavApiResolved(i)

SpecOpen == InitOpen /\ [][NextOpen]_vars

\* ------------------------------------------------------------------ claims
\* C1: after any sequence of folder-added, folder-removed, editor-focus,
\* explicit-selection and initialization events, the active folder is either
\* empty or a key that is present in the Session Registry.
C1_ActiveFolderRegistered ==
  activeFolder = None \/ Has(registry, activeFolder)

\* the active folder was removed and another registered folder is active now
C1_Witness ==
  /\ \E i \in 1..Len(log) : log[i].kind = "removed" /\ log[i].was = log[i].folder
  /\ activeFolder # None
  /\ Has(registry, activeFolder)

\* the calls in flight, and the calls that resolved in the latest step
LiveCalls == Range(disp)
DoneCalls == {log[i].d : i \in {j \in 1..Len(log) : log[j].kind = "done"}}

\* C2: under every interleaving of commands, at most one driver invocation is
\* in flight on a Session at any time: no two calls are running their
\* operation on the same Session.
C2_OneInvocationPerSession ==
  \A i, j \in 1..Len(disp) :
    (i # j /\ disp[i].pc = "run" /\ disp[j].pc = "run") => disp[i].cur # disp[j].cur

\* C3: an operation issued on a Session that already has one in flight is
\* rejected (SessionBusy) instead of being invoked: of two calls in flight that
\* target the same Session, at most one has invoked its operation on it.
C3_SecondRejected ==
  \A i, j \in 1..Len(disp) :
    (i < j /\ disp[i].cur # None /\ disp[i].cur = disp[j].cur)
      => ~(Has(disp[i].invoked, disp[i].cur) /\ Has(disp[j].invoked, disp[j].cur))

\* C4: a fan-out over all Sessions visits them in registry order and, at the
\* first Session whose operation returns a non-zero result, returns that
\* result and never invokes the operation on any later Session.
C4_FanOutFailFast ==
  \A d \in LiveCalls \cup DoneCalls :
    d.mode = "all" =>
      /\ IsPrefix(d.invoked, registry)
      /\ Len(d.rets) <= Len(d.invoked)
      /\ \A k \in 1..Len(d.rets) :
           d.rets[k] # 0 => /\ k = Len(d.invoked)
                            /\ d.pc = "done"
                            /\ d.result = d.rets[k]

\* a fan-out over two Sessions with kits ended at the first one's failure
C4_Witness ==
  \E d \in DoneCalls :
    /\ d.mode = "all"
    /\ Len(registry) = 2
    /\ activeKit[registry[2]] # NoKit
    /\ d.invoked = <<registry[1]>>
    /\ d.result = 1

\* a build with no folder argument was issued in this step
ActiveCallStarted ==
  \E i \in 1..Len(log') :
    log'[i].kind = "return" /\ log'[i].cmd = "single" /\ log'[i].arg = None

\* the new call waits at the kit picker of the active folder
PromptTriggered ==
  /\ Len(disp') = Len(disp) + 1
  /\ LET d == disp'[Len(disp')]
     IN /\ d.pc = "prompt"
        /\ d.cur = activeFolder
        /\ d.promptFor = activeFolder
        /\ d.invoked = <<>>

\* a call on the active Session that resolved while the Session has no kit
\* gave NoKitResult, never invoked the operation and left nothing running on
\* the Session
NoKitOutcome ==
  \A d \in DoneCalls' :
    (d.mode = "active" /\ d.cur # None /\ activeKit'[d.cur] = NoKit)
      => /\ d.result = NoKitResult
         /\ d.invoked = <<>>
         /\ \A j \in 1..Len(disp') : disp'[j].cur = d.cur => disp'[j].pc # "run"

\* C5 (as amended): when a command is run on the active Session and that
\* Session has no active kit, the kit picker is shown unless the extension runs
\* with CMT_TESTING=1; a call that resolves while the Session still has no kit
\* (picker cancelled, or not shown) gives NoKitResult, never invokes the
\* operation and leaves no operation in flight on the Session.
C5_KitPrompt ==
  [][/\ (ActiveCallStarted /\ activeFolder # None /\ activeKit[activeFolder] = NoKit
           /\ ~testing) => PromptTriggered
     /\ NoKitOutcome]_vars

\* the picker was shown for a call on the active Session and cancelled
C5_Witness ==
  /\ ~testing
  /\ \E d \in DoneCalls :
       /\ d.mode = "active"
       /\ d.prompted = <<d.cur>>
       /\ d.invoked = <<>>
       /\ d.result = NoKitResult
       /\ activeKit[d.cur] = NoKit

\* C5 (as stated): when a command is run on the active Session and that
\* Session has no active kit, the kit-selection prompt is triggered.
C5_AlwaysPrompts ==
  [][(ActiveCallStarted /\ activeFolder # None /\ activeKit[activeFolder] = NoKit)
       => PromptTriggered]_vars

\* C6: a command run on the active Session while there is no active folder
\* fails with NoActiveFolder, a result distinguishable from the success code 0.
C6_NoActiveFolderDistinct ==
  \A d \in DoneCalls : (d.mode = "active" /\ d.cur = None) => d.result # 0

\* C7: a command given a folder key that is not in the registry runs the
\* operation on no Session (it does not fall back to the active folder).
C7_UnknownFolderRunsNothing ==
  \A d \in LiveCalls \cup DoneCalls :
    (d.arg # None /\ ~Has(registry, d.arg)) => d.invoked = <<>>

\* C8: in a clean-then-rebuild composite the rebuild step starts only after
\* the clean step has finished: the two steps are never in flight together.
C8_RebuildAfterClean ==
  \A i, j \in 1..Len(disp) :
    (disp[i].gid # 0 /\ disp[i].gid = disp[j].gid /\ disp[i].step = "clean")
      => disp[j].step # "rebuild"

\* C9: two code-model-changed notifications for the same folder that arrive
\* before the recompute of the first has completed result in exactly one
\* recompute: no two navigation-data recomputes of one folder are in flight
\* together.
C9_OneRecompute ==
  \A i, j \in 1..Len(nav) :
    (i < j /\ nav[i].folder = nav[j].folder)
      => ~(nav[i].pc \in {"cache", "env"} /\ nav[j].pc \in {"cache", "env"})

\* C10: a recompute started for an older notification never overwrites the
\* result of a newer one: when an update publishes after a later-started
\* update of the same folder has, the provider's tuple stays as it was.
C10_NoStaleOverwrite ==
  \A i \in 1..Len(log) :
    (log[i].kind = "publish" /\ log[i].t.stale /\ log[i].over.folder = log[i].t.folder)
      => log[i].over = [folder |-> log[i].t.folder, cm |-> log[i].t.cm, kit |-> log[i].t.kit]

\* the updates whose cache could not be opened in the step just taken
CacheFailures == {log'[i].t : i \in {j \in 1..Len(log') : log'[j].kind = "cacheFailure"}}

\* C11: if opening the build cache fails while the navigation data of a folder
\* is recomputed, the outline of the folder has been updated (it shows the
\* snapshot of that notification or a later one, and is not rolled back), no
\* tuple is published, the recompute is not retried (it is gone and no other
\* has started), and the configure calls and the Session's code model are
\* untouched.
C11_CacheFailureIsolated ==
  [][\A t \in CacheFailures :
       /\ outline' = outline
       /\ outline[t.folder].cm >= t.cm
       /\ published' = published
       /\ Len(nav') = Len(nav) - 1
       /\ \A j \in 1..Len(nav') : nav'[j] \in Range(nav)
       /\ t \in Range(nav) /\ t.pc = "cache"
       /\ \A j \in 1..Len(nav') : nav'[j] = t =>
             Cardinality({k \in 1..Len(nav) : nav[k] = t}) > 1
       /\ disp' = disp
       /\ codeModel' = codeModel]_vars

\* the cache of the only update in flight could not be opened: the outline
\* shows that update's snapshot and the provider was given nothing
C11_Witness ==
  /\ \E i \in 1..Len(log) :
       /\ log[i].kind = "cacheFailure"
       /\ log[i].t.cm > 0
       /\ outline[log[i].folder].cm = log[i].t.cm
  /\ nav = <<>>
  /\ published = NoTuple

\* the folders whose removal the registry finished in the latest step, each
\* with the folder that was active before
Removals == {log[i] : i \in {j \in 1..Len(log) : log[j].kind = "removed"}}

\* C12 (as stated): when the active folder is removed, the active folder is
\* reassigned to a folder still in the registry if any remain and becomes empty
\* if none remain; removing a non-active folder leaves the active folder
\* unchanged.
C12_ReselectInRegistry ==
  \A ev \in Removals :
    IF ev.was = ev.folder
      THEN IF registry # <<>> THEN Has(registry, activeFolder) ELSE activeFolder = None
    ELSE activeFolder = ev.was

\* C12 (as amended): when the active folder is removed, the active folder
\* becomes the first workspace folder still open if the registry has it, and
\* empty if it has not or if no workspace folder is open any more; removing a
\* non-active folder leaves the active folder unchanged while a workspace
\* folder is open, and empties it when none is.
C12_ReselectFirstOpen ==
  \A ev \in Removals :
    IF workspaceFolders = <<>> THEN activeFolder = None
    ELSE IF ev.was = ev.folder
      THEN IF Has(registry, workspaceFolders[1]) THEN activeFolder = workspaceFolders[1]
           ELSE activeFolder = None
    ELSE activeFolder = ev.was

\* the active folder was removed while another stayed open: that one is active
C12_Witness ==
  \E ev \in Removals :
    /\ ev.was = ev.folder
    /\ workspaceFolders # <<>>
    /\ activeFolder = workspaceFolders[1]
    /\ Has(registry, activeFolder)

\* the runs of the selectActiveFolder command, and the folders picked, in the
\* latest step
Selects == {log[i] : i \in {j \in 1..Len(log) : log[j].kind = "selectActiveFolder"}}
Picked == {log[i] : i \in {j \in 1..Len(log) : log[j].kind = "picked"}}

FocusChanges == {log[i] : i \in {j \in 1..Len(log) : log[j].kind = "focus"}}

\* C14: with the auto-select policy on, when editor focus moves to a document
\* of an open folder other than the active one, the active folder becomes that
\* document's folder; a focus change to a document of the active folder or of
\* no open folder leaves the active folder unchanged.
C14_FocusFollows ==
  autoSelect =>
    \A ev \in FocusChanges :
      IF Has(workspaceFolders, ev.folder) /\ ev.folder # ev.was
        THEN activeFolder = ev.folder
      ELSE activeFolder = ev.was

\* C15: with more than one Session open and the auto-select policy off, the
\* active folder is the one last chosen explicitly or restored: editor-focus
\* changes never change it.
C15_FocusIgnoredPolicyOff ==
  (~autoSelect /\ Len(registry) > 1) =>
    \A ev \in FocusChanges : activeFolder = ev.was


\* the folders whose Session the registry took in at this step, each with the
\* folder that was active before
Additions == {log[i] : i \in {j \in 1..Len(log) : log[j].kind = "added"}}

\* C16: a folder added while no Session exists (the arbiter is Unset) becomes
\* the active folder; a folder added while some folder is active leaves that
\* folder active.
C16_FirstAddedBecomesActive ==
  \A ev \in Additions :
    /\ Len(registry) = 1 => activeFolder = ev.folder
    /\ ev.was # None => activeFolder = ev.was


\* C17: in every state the seven status-line subscriptions (status message,
\* target name, build type, launch target, ctest-enabled, test results, busy)
\* are all attached to the active Session, or all detached when there is none.
C17_StatusSubsFollowActive == \A n \in StatusSubs : statusSubs[n] = activeFolder

\* the subscriptions have moved from one Session to another
C17_Witness ==
  /\ activeFolder # None
  /\ \A n \in StatusSubs : statusSubs[n] = activeFolder
  /\ \E i \in 1..Len(log) : /\ log[i].kind \in {"focus", "removed", "picked"}
                             /\ log[i].was # None
                             /\ log[i].was # activeFolder


\* the former Sessions that raised a notification at this step
FormerNotifications ==
  {log'[i].folder : i \in {j \in 1..Len(log') : log'[j].kind = "formerNotify"}}

C19_RegistryHoldsLiveSessions ==
  /\ \A key \in Folders : Has(registry, key) <=> key \in live
  /\ \A i, j \in 1..Len(registry) : registry[i] = registry[j] => i = j

\* a folder was removed while the other stays: the registry holds the live
\* Session and not the disposed one
C19_Witness ==
  \E i \in 1..Len(log) :
    /\ log[i].kind = "removed"
    /\ ~Has(registry, log[i].folder)
    /\ log[i].folder \notin live
    /\ Len(registry) = 1
    /\ Range(registry) = live


\* the registry's add is handled at this step for a key that is present
DuplicateAdd ==
  /\ pending # <<>>
  /\ Head(pending).kind = "add"
  /\ Has(registry, Head(pending).folder)
  /\ pending' = Tail(pending)

\* C20: adding a key that is present fails with DuplicateFolder and changes
\* nothing: the registry, the Session of the key (its kit, code model and
\* listeners), the subscriptions kept for it and the active folder stay as
\* they were, no Session is created and no "added" event is raised.
C20_DuplicateAddRejected ==
  [][DuplicateAdd =>
       /\ log' = <<EvDuplicateFolder(Head(pending).folder)>>
       /\ registry' = registry
       /\ live' = live
       /\ former' = former
       /\ <<activeKit, codeModel, listeners, cmSubs>>' = <<activeKit, codeModel, listeners, cmSubs>>
       /\ <<activeFolder, statusSubs, outline, nav, disp>>' = <<activeFolder, statusSubs, outline, nav, disp>>]_vars

\* add failed for a key of a registry that holds two Sessions
C20_Witness ==
  \E f \in Folders : /\ log = <<EvDuplicateFolder(f)>>
                      /\ Has(registry, f)
                      /\ Len(registry) = 2
                      /\ listeners[f] = 1


\* the registry's remove is handled at this step
RemoveHandled ==
  /\ pending # <<>>
  /\ Head(pending).kind = "remove"
  /\ pending' = Tail(pending)

\* the "removed" events of the step
RemovedEvents == SelectSeq(log', LAMBDA e : e.kind = "removed")

\* C21: removing an absent key changes nothing and raises no event; removing
\* a present key raises exactly one "removed" event, for that key, and where
\* the event is observed the Session is disposed: it is not live, the registry
\* does not hold it and no listener is left attached to it.
C21_RemoveOnceAfterDisposal ==
  [][RemoveHandled =>
       LET f == Head(pending).folder
       IN IF ~Has(registry, f)
            THEN /\ RemovedEvents = <<>>
                 /\ <<registry, live, former, listeners, cmSubs>>' =
                      <<registry, live, former, listeners, cmSubs>>
                 /\ <<activeFolder, statusSubs, activeKit, codeModel, outline>>' =
                      <<activeFolder, statusSubs, activeKit, codeModel, outline>>
          ELSE /\ Len(RemovedEvents) = 1
               /\ RemovedEvents[1].folder = f
               /\ ~Has(registry', f)
               /\ f \notin live'
               /\ listeners'[f] = 0
               /\ former'[f] = 0]_vars

\* remove was called for an absent key while a Session is registered
C21_Witness ==
  \E f \in Folders : /\ log = <<EvRemoveAbsent(f)>>
                      /\ ~Has(registry, f)
                      /\ registry # <<>>


\* the outline updates of the step for folder f
OutlineUpdates(f) == SelectSeq(log', LAMBDA e : e.kind = "outline" /\ e.folder = f)

\* the folders whose Session got its code-model subscriptions at the step
NewlySubscribed ==
  {g \in Folders : g \in cmSubs' /\ g \notin cmSubs}

\* C22: a status-line subscription replays the current value when it is made
\* and delivers every later change, so the status bar always shows the target
\* of the Session it is subscribed to; a code-model subscription delivers
\* nothing when it is made and one call per later change.
C22_FireNowFireLate ==
  /\ [](statusSubs["targetName"] # None =>
          sbTargetName = targetName[statusSubs["targetName"]])
  /\ [][/\ \A g \in NewlySubscribed : OutlineUpdates(g) = <<>>
        /\ \A g \in Folders :
             targetName'[g] # targetName[g] /\ Has(registry', g) =>
               Len(OutlineUpdates(g)) = listeners[g]]_vars

\* the status bar moved to a Session whose target is not the one it showed
C22_Witness ==
  /\ activeFolder # None
  /\ statusSubs["targetName"] = activeFolder
  /\ sbTargetName = "app"
  /\ \E i \in 1..Len(log) : log[i].kind = "focus" /\ log[i].was # None
                              /\ log[i].was # activeFolder
                              /\ targetName[log[i].was] = "all"


\* the Session of f is the same before and after the step and its kit differs
KitChanged(f) == f \in live /\ f \in live' /\ activeKit'[f] # activeKit[f]

\* the step is a setKitByName that names f or no folder
SetByNameStep(f) ==
  \E i \in 1..Len(log') : /\ log'[i].kind = "setKitByName"
                           /\ log'[i].arg \in {None, f}

\* the step answers a kit picker that was shown for f
PickerStep(f) ==
  /\ disp' # disp
  /\ \E i \in 1..Len(disp) : disp[i].pc = "prompt" /\ disp[i].promptFor = f

\* C23: the active kit of a Session changes only in a kit selection or a
\* set-kit-by-name on that Session; configure, build, stop, scan for kits and
\* changes of the active folder leave every Session's kit as it was.
C23_KitFrame ==
  [][\A f \in Folders : KitChanged(f) => SetByNameStep(f) \/ PickerStep(f)]_vars


\* the setKitByName calls of the step
SetKitCalls == {log'[i] : i \in {j \in 1..Len(log') : log'[j].kind = "setKitByName"}}

\* C24: setKitByName without a folder gives the kit to every Session of the
\* registry; with a folder it gives the kit to that folder's Session and
\* leaves every other Session's kit as it was; with a folder that is not in
\* the registry it changes no kit.
C24_SetKitByNameScope ==
  [][\A c \in SetKitCalls :
       \A f \in Folders :
         activeKit'[f] = IF Has(registry, f) /\ c.arg \in {None, f} THEN c.kit
                         ELSE activeKit[f]]_vars

\* the kit was set by name for folder B while A, registered too, keeps
\* another kit
C24_Witness ==
  /\ \E k \in Kits : log = <<EvSetKit(k, "B")>> /\ activeKit["B"] = k /\ activeKit["A"] # k
  /\ Has(registry, "A")
  /\ Has(registry, "B")

\* two calls of one fan-out command
SameFanOut(d, e) ==
  /\ d.cmd = e.cmd
  /\ d.gid = e.gid
  /\ d.cmd \in TargetAllCmds \cup {"cleanRebuildAll"}

\* the call is at its kit prompt or its operation is running
InFlight(d) == d.pc \in {"prompt", "run"}

\* C25: every fan-out-to-all-folders command works on its Sessions one after
\* the other: at no time does one fan-out have operations (kit prompts
\* included) in flight on two Sessions.
C25_FanOutSequential ==
  \A i, j \in 1..Len(disp) :
    (i # j /\ SameFanOut(disp[i], disp[j]) /\ InFlight(disp[i]) /\ InFlight(disp[j]))
      => disp[i].cur = disp[j].cur

\* the lists debugTargetAll / launchTargetAll resolved to in the latest step
ReturnAlls == {log[i] : i \in {j \in 1..Len(log) : log[j].kind = "returnAll"}}

\* C30: for a registry of N folders, debugTargetAll and launchTargetAll return
\* a list of 2N entries in which each folder's own result is immediately
\* followed by one extra null entry.
C30_TargetAllResults ==
  \A e \in ReturnAlls :
    /\ Len(e.list) = 2 * Len(registry)
    /\ \A k \in 1..Len(registry) :
         /\ e.list[2 * k - 1].from = registry[k]
         /\ e.list[2 * k - 1].v.def
         /\ e.list[2 * k] = ExtraNull

\* a list over two folders is returned, the first folder's target having run
\* and the second folder's call having failed for want of a kit
C30_Witness ==
  \E e \in ReturnAlls :
    /\ Len(registry) = 2
    /\ e.list[1].v = Val(1)
    /\ e.list[3].v = Val(NoKitResult)

\* C26: the kit picker an ensure-kit step shows for a Session without a kit
\* is that Session's own picker, not the active folder's.
C26_PromptForOwnSession ==
  \A i \in 1..Len(disp) :
    disp[i].pc = "prompt" => disp[i].promptFor = disp[i].cur

\* step k of the smoke run gave the result its ok flag expects
Expected(k) ==
  \/ smoke.steps[k].type = "setKit"
  \/ (smoke.ran[k].res = 0) = smoke.steps[k].ok

\* the steps of the smoke run that were successful configures
Configured ==
  {k \in 1..Len(smoke.ran) : smoke.steps[k].type = "configure" /\ smoke.ran[k].res = 0}

InitFromStored ==
  /\ phase = "new"
  /\ phase' = "ready"
  /\ workspaceFolders # <<>>
  /\ ~(autoSelect /\ log'[1].folder # "noeditor")

\* C29: the explicitly chosen active folder survives a restart: when the
\* folder whose path the last explicit selection stored is still open at
\* initialization, it is the active folder afterwards; when it is not (or
\* nothing was stored), the first open folder is.
C29_SelectionSurvivesRestart ==
  [][InitFromStored =>
       IF persisted # NoPath /\ Has(workspaceFolders, persisted[2])
         THEN activeFolder' = persisted[2]
       ELSE activeFolder' = workspaceFolders[1]]_vars

\* what the step released and disposed
Releases == {log'[i] : i \in {j \in 1..Len(log') : log'[j].kind = "released"}}
Disposals == SelectSeq(log', LAMBDA e : e.kind = "disposed")

\* the step is the start of the deactivation
Deactivating == phase \in {"new", "ready"} /\ phase' \in {"disposing", "disposed"}

\* what a step of the deactivation releases and disposes: the first step
\* releases each attached subscription once, and a Session is disposed when
\* it is live, once
ReleasedOnce ==
  /\ Deactivating =>
       /\ Cardinality(Releases) = 1
       /\ \A e \in Releases :
            /\ \A n \in StatusSubs :
                 e.status[n] = IF statusSubs[n] # None THEN 1 ELSE 0
            /\ \A f \in Folders : e.codeModel[f] = listeners[f]
       /\ \A f \in Range(registry) : f \in live
  /\ ~Deactivating => Releases = {}
  /\ \A i \in 1..Len(Disposals) :
       /\ Disposals[i].folder \in live
       /\ Disposals[i].folder \notin live'
       /\ \A j \in 1..Len(Disposals) : j # i => Disposals[j].folder # Disposals[i].folder
  /\ phase' = "disposed" => \A f \in Range(registry') : f \notin live'

Notified ==
  {log'[i].folder : i \in {j \in 1..Len(log') : log'[j].kind \in {"targetName", "codeModelChanged"}}}

FanOutsDone == {d \in DoneCalls : d.mode = "all"}

\* C32: a fan-out over all Sessions returns 0 if and only if the operation
\* was invoked on every Session (each had or obtained a Kit), exactly once
\* each, and returned zero every time; a fan-out that meets a Session which
\* cannot obtain a Kit returns -1 and has invoked the operation neither on
\* that Session nor on any later one.
C32_FanOutZeroIffAll ==
  \A d \in FanOutsDone :
    /\ d.result = 0 <=>
         /\ d.invoked = registry
         /\ Len(d.rets) = Len(registry)
         /\ \A k \in 1..Len(d.rets) : d.rets[k] = 0
    /\ Len(d.rets) < Len(d.invoked) \/ d.result = NoKitResult =>
         /\ d.result = NoKitResult
         /\ Len(d.rets) = Len(d.invoked)
         /\ IsPrefix(d.invoked, registry)
         /\ Len(d.invoked) < Len(registry)
         /\ d.cur = registry[Len(d.invoked) + 1]
         /\ activeKit[d.cur] = NoKit
         /\ \A k \in 1..Len(d.rets) : d.rets[k] = 0

\* a fan-out over two Sessions returned 0 after the second obtained its Kit
\* from the picker
C32_Witness ==
  \E d \in FanOutsDone :
    /\ d.result = 0
    /\ Len(registry) = 2
    /\ d.prompted # <<>>

\* a fan-out returned -1 at the second Session, the first one having run
C32_WitnessNoKit ==
  \E d \in FanOutsDone :
    /\ d.result = NoKitResult
    /\ Len(d.invoked) = 1

\* C33: once initialization has completed, whenever at least one folder is
\* open there is an active Session, whatever the auto-select policy, the
\* persisted folder and the document focused at startup.
C33_ActiveWhenFoldersOpen ==
  (phase = "ready" /\ workspaceFolders # <<>>) =>
    (activeFolder # None /\ Has(registry, activeFolder))

\* the same, for the initialization step alone
C33_ActiveAfterInit ==
  [][(phase = "new" /\ phase' = "ready" /\ workspaceFolders # <<>>) =>
       activeFolder' # None]_vars

\* the name of the active Session's active Kit, empty when there is none
ActiveKitName ==
  IF activeFolder # None /\ activeKit[activeFolder] # NoKit THEN activeKit[activeFolder]
  ELSE ""

\* C34: whenever no command is in progress, the kit name shown on the status
\* line is the name of the active Session's active Kit, or empty when there is
\* no active Session or it has no Kit.
C34_StatusKitName ==
  (phase = "ready" /\ disp = <<>>) => sbKitName = ActiveKitName

\* how many events of the step satisfy P
Count(P(_)) == Len(SelectSeq(log', P))

\* runs of the post-folder-open step for folder f that the step started
PostOpens(f) == Count(LAMBDA e : e.kind = "postOpen" /\ e.folder = f)

\* folder-open events of the step for folder f: f is loaded at startup, or added
OpenEvents(f) ==
  (IF phase = "new" /\ phase' = "ready" /\ Has(registry', f) THEN 1 ELSE 0)
    + Count(LAMBDA e : e.kind = "added" /\ e.folder = f)

\* explicit selections of the step that made f the active folder in place of
\* another
Selections(f) ==
  IF /\ Count(LAMBDA e : e.kind = "picked" /\ e.folder = f) = 1
     /\ activeFolder' = f
     /\ picks # <<>>
     /\ picks[1].last # f
    THEN 1
  ELSE 0

\* the post-folder-open calls that resolved at the step
OpensDone == {log'[i].d : i \in {j \in 1..Len(log') : log'[j].kind = "done" /\ log'[j].d.mode = "open"}}
\* the post-folder-open calls of folder f in flight after the step
OpensLive(f) == {i \in 1..Len(disp') : disp'[i].mode = "open" /\ disp'[i].arg = f}
\* the answers given at the step
Answers == {log'[i] : i \in {j \in 1..Len(log') : log'[j].kind = "answer"}}

\* a post-folder-open call runs configure on its own Session, which has a kit
ConfiguresWithKit ==
  \A d \in LiveCalls :
    (d.mode = "open" /\ d.pc = "run") => (d.cur = d.arg /\ activeKit[d.cur] # NoKit)

\* a call that could not ensure a kit returns without configuring and without
\* updating the code model
NoKitNoUpdate ==
  \A d \in OpensDone :
    d.result = NoKitResult =>
      (d.invoked = <<>> /\ OutlineUpdates(d.arg) = <<>>)

\* with configure-on-open off, and after the answer "Not now", the step does
\* not configure and updates the code model once
NotRequestedUpdatesOnce ==
  /\ configureOnOpen = "no" =>
       \A f \in Folders :
         /\ Len(OutlineUpdates(f)) = PostOpens(f)
         /\ OpensLive(f) = {}
  /\ \A e \in Answers :
       e.choice = "no" =>
         /\ Len(OutlineUpdates(e.folder)) = 1
         /\ \A d \in OpensDone : d.invoked = <<>>

ProviderAnnouncements == {log[i] : i \in {j \in 1..Len(log) : log[j].kind = "providerReady"}}

\* C36: the navigation-data provider is registered with the language tooling
\* at most once, however many updates call ensureCppToolsProviderRegistered
\* and however their awaits interleave, and every announcement of the
\* provider, and every update waiting to announce it, finds it registered.
C36_RegisteredOnceBeforeReady ==
  /\ registered <= 1
  /\ regMemo <=> registered = 1
  /\ \A e \in ProviderAnnouncements : e.registered = 1
  /\ \A i \in 1..Len(nav) : nav[i].pc = "announce" => registered = 1

\* an update announced the provider while another one, which called
\* ensureCppToolsProviderRegistered before the first resumed, still awaits
C36_Witness ==
  /\ ProviderAnnouncements # {}
  /\ \E i \in 1..Len(nav) : nav[i].pc = "announce"
  /\ registered = 1

====
